---- MODULE Spec2Model ----
(***************************************************************************)
(* A model of blivet/formats/fslabel.py: the filesystem labeling           *)
(* applications (FSLabelApp and its five subclasses).                      *)
(*                                                                         *)
(* Python strings are sequences of one-character strings, argument lists   *)
(* are sequences of such strings.  A call either returns a value or raises *)
(* an exception; both are recorded as an outcome record.                   *)
(***************************************************************************)
EXTENDS Integers, Sequences, FiniteSets

VARIABLES
  _name,     \* app -> the class attribute _name
  fs,        \* the caller's filesystem object: [device, label]
  label_arg,     \* the caller's candidate label, the argument of labelFormatOK
  labelstr_arg,  \* the caller's captured output text, the argument of extractLabel
  call,      \* the last call made: [op, app]
  outcome,   \* what the last call returned or raised
  first,     \* the first call made and its outcome
  again      \* whether the last call made the first call a second time

vars == <<_name, fs, label_arg, labelstr_arg, call, outcome, first, again>>

\* ------------------------------------------------------------------ bounds

\* longest label handed to labelFormatOK
MaxLabelLen == 18
\* longest free part of a captured output text
MaxBody == 3

\* --------------------------------------------------------------- the classes

Apps == {"E2Label", "DosFsLabel", "JFSTune", "ReiserFSTune", "XFSAdmin"}

\* the class attribute _name of each subclass, as the class statements set it
ClassNames(app) ==
  CASE app = "E2Label"      -> <<"e","2","l","a","b","e","l">>
    [] app = "DosFsLabel"   -> <<"d","o","s","f","s","l","a","b","e","l">>
    [] app = "JFSTune"      -> <<"j","f","s","_","t","u","n","e">>
    [] app = "ReiserFSTune" -> <<"r","e","i","s","e","r","f","s","t","u","n","e">>
    [] app = "XFSAdmin"     -> <<"x","f","s","_","a","d","m","i","n">>

\* the property name
name(app) == _name[app]

reads(app) == app \in {"E2Label", "DosFsLabel", "XFSAdmin"}

\* variant: XFSAdmin too claims to unset labels
unsetsLabel_all(app) == TRUE
unsetsLabel(app) == app # "XFSAdmin"

\* ------------------------------------------------------- results of a call

\* the names bound in the module's namespace: the two imports and the classes
ModuleNames == {"abc", "re"} \cup {"FSLabelApp"} \cup Apps

\* the builtin exception classes the module mentions
BuiltinNames == {"NotImplementedError", "ValueError"}

Return(v) == [ok |-> TRUE, val |-> v, err |-> "", line |-> 0]

\* raise exc(...) at source line ln: the name exc is looked up first, and a
\* name bound neither in the module nor in the builtins is a NameError
Raise(exc, ln) ==
  [ok |-> FALSE, val |-> <<>>,
   err |-> IF exc \in ModuleNames \cup BuiltinNames THEN exc ELSE "NameError",
   line |-> ln]

\* ---------------------------------------------------------------- strings

NL == "\n"
QUOTE == "\""
SPACE == " "

Truthy(s) == Len(s) > 0

In(c, s) == \E i \in 1..Len(s) : s[i] = c

StartsWith(s, p) == Len(s) >= Len(p) /\ SubSeq(s, 1, Len(p)) = p

Max(S) == CHOOSE m \in S : \A n \in S : n <= m
Min(S) == CHOOSE m \in S : \A n \in S : m <= n

\* ----------------------------------------------------------- labelFormatOK

\* variant: E2Label compares with <= instead of <
labelFormatOK_off_by_one(app, label) ==
  CASE app = "E2Label"      -> Len(label) <= 17
    [] app = "DosFsLabel"   -> Len(label) < 12
    [] app = "JFSTune"      -> Len(label) < 17
    [] app = "ReiserFSTune" -> Len(label) < 17
    [] app = "XFSAdmin"     -> ~In(SPACE, label) /\ Len(label) < 13

labelFormatOK(app, label) ==
  CASE app = "E2Label"      -> Len(label) < 17
    [] app = "DosFsLabel"   -> Len(label) < 12
    [] app = "JFSTune"      -> Len(label) < 17
    [] app = "ReiserFSTune" -> Len(label) < 17
    [] app = "XFSAdmin"     -> ~In(SPACE, label) /\ Len(label) < 13

\* ---------------------------------------------------------- _writeLabelArgs

DashUpperL == <<"-", "L">>
DashLowerL == <<"-", "l">>

\* variant: JFSTune puts the device before the label
_writeLabelArgs_swapped(app, f) ==
  CASE app \in {"E2Label", "DosFsLabel"} ->
         IF Truthy(f.label) THEN Return(<<f.device, f.label>>)
                            ELSE Return(<<f.device, <<>> >>)
    [] app = "JFSTune" ->
         IF Truthy(f.label) THEN Return(<<DashUpperL, f.device, f.label>>)
                            ELSE Return(<<DashUpperL, <<>>, f.device>>)
    [] app = "ReiserFSTune" ->
         IF Truthy(f.label) THEN Return(<<DashLowerL, f.label, f.device>>)
                            ELSE Return(<<DashLowerL, <<>>, f.device>>)
    [] app = "XFSAdmin" ->
         IF Truthy(f.label) THEN Return(<<DashUpperL, f.label, f.device>>)
                            ELSE Raise("ValueError", 255)

\* variant: XFSAdmin writes an empty label like the other classes
_writeLabelArgs_xfs_unsets(app, f) ==
  CASE app \in {"E2Label", "DosFsLabel"} ->
         IF Truthy(f.label) THEN Return(<<f.device, f.label>>)
                            ELSE Return(<<f.device, <<>> >>)
    [] app = "JFSTune" ->
         IF Truthy(f.label) THEN Return(<<DashUpperL, f.label, f.device>>)
                            ELSE Return(<<DashUpperL, <<>>, f.device>>)
    [] app = "ReiserFSTune" ->
         IF Truthy(f.label) THEN Return(<<DashLowerL, f.label, f.device>>)
                            ELSE Return(<<DashLowerL, <<>>, f.device>>)
    [] app = "XFSAdmin" ->
         IF Truthy(f.label) THEN Return(<<DashUpperL, f.label, f.device>>)
                            ELSE Return(<<DashUpperL, <<>>, f.device>>)

_writeLabelArgs(app, f) ==
  CASE app \in {"E2Label", "DosFsLabel"} ->
         IF Truthy(f.label) THEN Return(<<f.device, f.label>>)
                            ELSE Return(<<f.device, <<>> >>)
    [] app = "JFSTune" ->
         IF Truthy(f.label) THEN Return(<<DashUpperL, f.label, f.device>>)
                            ELSE Return(<<DashUpperL, <<>>, f.device>>)
    [] app = "ReiserFSTune" ->
         IF Truthy(f.label) THEN Return(<<DashLowerL, f.label, f.device>>)
                            ELSE Return(<<DashLowerL, <<>>, f.device>>)
    [] app = "XFSAdmin" ->
         IF Truthy(f.label) THEN Return(<<DashUpperL, f.label, f.device>>)
                            ELSE Raise("ValueError", 255)

\* [self.name] + self._writeLabelArgs(fs): an exception raised by
\* _writeLabelArgs leaves the call before any list is built
setLabelCommand(app, f) ==
  LET n == name(app)
      a == _writeLabelArgs(app, f)
  IN  IF a.ok THEN Return(<<n>> \o a.val) ELSE a

\* ----------------------------------------------------------- _readLabelArgs

_readLabelArgs(app, f) ==
  CASE app \in {"E2Label", "DosFsLabel"} -> Return(<<f.device>>)
    [] app = "JFSTune"      -> Raise("NotImplementedError", 205)
    [] app = "ReiserFSTune" -> Raise("NotImplementedError", 233)
    [] app = "XFSAdmin"     -> Return(<<DashLowerL, f.device>>)

readLabelCommand(app, f) ==
  IF ~reads(app)
    THEN Raise("FSError", 106)
    ELSE LET n == name(app)
             a == _readLabelArgs(app, f)
         IN  IF a.ok THEN Return(<<n>> \o a.val) ELSE a

\* ----------------------------------------------------------- _labelstrRegex

\* A pattern prefix(?P<label>.*)suffix, prefix and suffix literal text.
Pattern(p, q) == [prefix |-> p, suffix |-> q]

XfsPrefix == <<"l","a","b","e","l"," ","="," ","\"">>

_labelstrRegex(app) ==
  CASE app \in {"E2Label", "DosFsLabel"} -> Return(Pattern(<<>>, <<>>))
    [] app = "JFSTune"      -> Raise("NotImplementedError", 208)
    [] app = "ReiserFSTune" -> Raise("NotImplementedError", 236)
    [] app = "XFSAdmin"     -> Return(Pattern(XfsPrefix, <<QUOTE>>))

\* the match object, or None
None == [matched |-> FALSE, label |-> <<>>]
Match(l) == [matched |-> TRUE, label |-> l]

\* The ends the group may have: after the prefix, k characters none of which
\* is a line break ('.' matches no "\n"), followed by the suffix.
GroupEnds(rest, q, dotall) ==
  LET nls   == {i \in 1..Len(rest) : rest[i] = NL}
      reach == IF nls = {} \/ dotall THEN Len(rest) ELSE Min(nls) - 1
  IN  {k \in 0..reach : StartsWith(SubSeq(rest, k + 1, Len(rest)), q)}

\* variant: the group is lazy, .*? in place of .*
re_match_lazy(pattern, s) ==
  IF ~StartsWith(s, pattern.prefix)
    THEN None
    ELSE LET rest == SubSeq(s, Len(pattern.prefix) + 1, Len(s))
             K    == GroupEnds(rest, pattern.suffix, FALSE)
         IN  IF K = {} THEN None ELSE Match(SubSeq(rest, 1, Min(K)))

\* variant: the pattern is compiled with re.DOTALL
re_match_dotall(pattern, s) ==
  IF ~StartsWith(s, pattern.prefix)
    THEN None
    ELSE LET rest == SubSeq(s, Len(pattern.prefix) + 1, Len(s))
             K    == GroupEnds(rest, pattern.suffix, TRUE)
         IN  IF K = {} THEN None ELSE Match(SubSeq(rest, 1, Max(K)))

\* re.match(pattern, s): the pattern is tried at the start of s only; the
\* group is greedy, so of the possible ends the last is taken.
re_match(pattern, s) ==
  IF ~StartsWith(s, pattern.prefix)
    THEN None
    ELSE LET rest == SubSeq(s, Len(pattern.prefix) + 1, Len(s))
             K    == GroupEnds(rest, pattern.suffix, FALSE)
         IN  IF K = {} THEN None ELSE Match(SubSeq(rest, 1, Max(K)))

\* re.search(pattern, s): the leftmost place of s where the pattern matches
re_search(pattern, s) ==
  LET O == {o \in 0..Len(s) : re_match(pattern, SubSeq(s, o + 1, Len(s))).matched}
  IN  IF O = {} THEN None ELSE re_match(pattern, SubSeq(s, Min(O) + 1, Len(s)))

\* -------------------------------------------------------------- extractLabel

\* variant: re.search in place of re.match
extractLabel_search(app, s) ==
  IF ~reads(app)
    THEN Raise("FSError", 120)
    ELSE LET r == _labelstrRegex(app)
         IN  IF ~r.ok
               THEN r
               ELSE LET m == re_search(r.val, s)
                    IN  IF ~m.matched THEN Raise("FSError", 123)
                                      ELSE Return(m.label)

extractLabel(app, s) ==
  IF ~reads(app)
    THEN Raise("FSError", 120)
    ELSE LET r == _labelstrRegex(app)
         IN  IF ~r.ok
               THEN r
               ELSE LET m == re_match(r.val, s)
                    IN  IF ~m.matched THEN Raise("FSError", 123)
                                      ELSE Return(m.label)

\* ------------------------------------------------------- the callers' inputs

\* a label of n characters with a space at position p (no space when p = 0)
LabelOf(n, p) == [i \in 1..n |-> IF i = p THEN SPACE ELSE "x"]

Labels == {LabelOf(n, p) : n \in 0..MaxLabelLen, p \in 0..MaxLabelLen}

Devices == {<<"/","d","e","v","/","s","d","a","1">>, <<"/","d","e","v","/","v","g","/","l","v">>}

FsLabels == {LabelOf(n, p) : n \in {0, 1, 2, MaxLabelLen}, p \in {0, 1}}

Filesystems == [device : Devices, label : FsLabels]

TextChars == {"v", QUOTE, NL}

Bodies == UNION {[1..k -> TextChars] : k \in 0..MaxBody}

Texts ==
  Bodies
  \cup {pre \o XfsPrefix \o b : pre \in {<<>>, <<"v">>, <<NL>>}, b \in Bodies}
  \cup {SubSeq(XfsPrefix, 1, k) \o b : k \in 1..8, b \in {<<>>, <<"v">>, <<QUOTE>>}}

BaseFs == [device |-> <<"/","d","e","v","/","s","d","a","1">>, label |-> <<"v","o","l","1">>]
BaseLabel == <<"v","o","l","1">>
BaseText == XfsPrefix \o <<"v","o","l","1">> \o <<QUOTE>>

\* one of the three inputs ranges over its set, the other two are fixed
Inputs ==
  {<<f, BaseLabel, BaseText>> : f \in Filesystems}
  \cup {<<BaseFs, l, BaseText>> : l \in Labels}
  \cup {<<BaseFs, BaseLabel, t>> : t \in Texts}

\* --------------------------------------------------------- the state machine

NoCall == [op |-> "none", app |-> "none"]
NoOutcome == [ok |-> TRUE, val |-> <<>>, err |-> "", line |-> 0]

Init ==
  /\ _name = [app \in Apps |-> ClassNames(app)]
  /\ \E in \in Inputs :
       /\ fs = in[1]
       /\ label_arg = in[2]
       /\ labelstr_arg = in[3]
  /\ call = NoCall
  /\ outcome = NoOutcome
  /\ first = [call |-> NoCall, outcome |-> NoOutcome]
  /\ again = FALSE

\* the bookkeeping of a call c that ended as o
Record(c, o) ==
  /\ call' = c
  /\ outcome' = o
  /\ first' = IF first.call = NoCall THEN [call |-> c, outcome |-> o] ELSE first
  /\ again' = (first.call = c)

LabelFormatOK ==
  \E app \in Apps :
    /\ Record([op |-> "labelFormatOK", app |-> app], Return(labelFormatOK(app, label_arg)))
    /\ UNCHANGED <<_name, fs, label_arg, labelstr_arg>>

\* variant: the call empties the label of the filesystem object it was given
SetLabelCommand_clears_label ==
  \E app \in Apps :
    /\ Record([op |-> "setLabelCommand", app |-> app], setLabelCommand(app, fs))
    /\ fs' = [fs EXCEPT !.label = <<>>]
    /\ UNCHANGED <<_name, label_arg, labelstr_arg>>

SetLabelCommand ==
  \E app \in Apps :
    /\ Record([op |-> "setLabelCommand", app |-> app], setLabelCommand(app, fs))
    /\ UNCHANGED <<_name, fs, label_arg, labelstr_arg>>

ReadLabelCommand ==
  \E app \in Apps :
    /\ Record([op |-> "readLabelCommand", app |-> app], readLabelCommand(app, fs))
    /\ UNCHANGED <<_name, fs, label_arg, labelstr_arg>>

ExtractLabel ==
  \E app \in Apps :
    /\ Record([op |-> "extractLabel", app |-> app], extractLabel(app, labelstr_arg))
    /\ UNCHANGED <<_name, fs, label_arg, labelstr_arg>>

Next ==
  \/ LabelFormatOK
  \/ SetLabelCommand
  \/ ReadLabelCommand
  \/ ExtractLabel

Spec == Init /\ [][Next]_vars

\* ------------------------------------------------------------- properties

\* the part of s before its first line break
FirstLine(s) ==
  LET nls == {i \in 1..Len(s) : s[i] = NL}
  IN  IF nls = {} THEN s ELSE SubSeq(s, 1, Min(nls) - 1)

\* the position of the last double quote of s, 0 when it has none
LastQuote(s) ==
  LET qs == {i \in 1..Len(s) : s[i] = QUOTE}
  IN  IF qs = {} THEN 0 ELSE Max(qs)

Raised(o, exc) == ~o.ok /\ o.err = exc /\ o.val = <<>>

\* C1: labelFormatOK never fails and returns the table's rule: length < 17
\* for E2Label, JFSTune and ReiserFSTune, length < 12 for DosFsLabel, and no
\* space together with length < 13 for XFSAdmin.
C1_FormatRule ==
  call.op = "labelFormatOK" =>
    /\ outcome.ok
    /\ outcome.val <=>
         CASE call.app \in {"E2Label", "JFSTune", "ReiserFSTune"} ->
                Len(label_arg) < 17
           [] call.app = "DosFsLabel" -> Len(label_arg) < 12
           [] call.app = "XFSAdmin" ->
                /\ \A i \in 1..Len(label_arg) : label_arg[i] # " "
                /\ Len(label_arg) < 13

\* XFSAdmin has rejected a label short enough but holding a space
C1_Witness ==
  /\ call = [op |-> "labelFormatOK", app |-> "XFSAdmin"]
  /\ Len(label_arg) < 13
  /\ \E i \in 1..Len(label_arg) : label_arg[i] = " "
  /\ outcome.ok /\ outcome.val = FALSE

\* C2: for a non-empty label, whether or not labelFormatOK accepts it,
\* setLabelCommand returns the program name followed by the write arguments,
\* device and label verbatim.
C2_SetLabelCommand ==
  (call.op = "setLabelCommand" /\ fs.label # <<>>) =>
    /\ outcome.ok
    /\ outcome.val =
         CASE call.app = "E2Label" ->
                << <<"e","2","l","a","b","e","l">>, fs.device, fs.label >>
           [] call.app = "DosFsLabel" ->
                << <<"d","o","s","f","s","l","a","b","e","l">>, fs.device, fs.label >>
           [] call.app = "JFSTune" ->
                << <<"j","f","s","_","t","u","n","e">>, <<"-","L">>, fs.label, fs.device >>
           [] call.app = "ReiserFSTune" ->
                << <<"r","e","i","s","e","r","f","s","t","u","n","e">>, <<"-","l">>,
                   fs.label, fs.device >>
           [] call.app = "XFSAdmin" ->
                << <<"x","f","s","_","a","d","m","i","n">>, <<"-","L">>, fs.label, fs.device >>

\* JFSTune has built the command for a label its own labelFormatOK rejects
C2_Witness ==
  /\ call = [op |-> "setLabelCommand", app |-> "JFSTune"]
  /\ ~labelFormatOK("JFSTune", fs.label)
  /\ outcome.ok /\ Len(outcome.val) = 4 /\ outcome.val[3] = fs.label

\* C3: with an empty label, setLabelCommand of E2Label, DosFsLabel, JFSTune
\* and ReiserFSTune returns the usual shape with "" in the label position,
\* and that of XFSAdmin raises ValueError and returns no list.
C3_EmptyLabel ==
  (call.op = "setLabelCommand" /\ fs.label = <<>>) =>
    CASE call.app = "E2Label" ->
           outcome.ok /\ outcome.val = << <<"e","2","l","a","b","e","l">>, fs.device, <<>> >>
      [] call.app = "DosFsLabel" ->
           outcome.ok /\ outcome.val =
             << <<"d","o","s","f","s","l","a","b","e","l">>, fs.device, <<>> >>
      [] call.app = "JFSTune" ->
           outcome.ok /\ outcome.val =
             << <<"j","f","s","_","t","u","n","e">>, <<"-","L">>, <<>>, fs.device >>
      [] call.app = "ReiserFSTune" ->
           outcome.ok /\ outcome.val =
             << <<"r","e","i","s","e","r","f","s","t","u","n","e">>, <<"-","l">>, <<>>,
                fs.device >>
      [] call.app = "XFSAdmin" -> Raised(outcome, "ValueError")

\* XFSAdmin has refused an empty label
C3_Witness ==
  /\ call = [op |-> "setLabelCommand", app |-> "XFSAdmin"]
  /\ fs.label = <<>>
  /\ outcome.err = "ValueError"

\* C4: readLabelCommand raises FSError exactly when reads is false (JFSTune,
\* ReiserFSTune), and otherwise returns the program name with the read
\* arguments.
C4_ReadLabelCommand ==
  call.op = "readLabelCommand" =>
    CASE call.app \in {"JFSTune", "ReiserFSTune"} -> Raised(outcome, "FSError")
      [] call.app = "E2Label" ->
           outcome.ok /\ outcome.val = << <<"e","2","l","a","b","e","l">>, fs.device >>
      [] call.app = "DosFsLabel" ->
           outcome.ok /\ outcome.val =
             << <<"d","o","s","f","s","l","a","b","e","l">>, fs.device >>
      [] call.app = "XFSAdmin" ->
           outcome.ok /\ outcome.val =
             << <<"x","f","s","_","a","d","m","i","n">>, <<"-","l">>, fs.device >>

\* s holds label = " at offset o, with a double quote at position e after it
HoldsLabelAt(s, o, e) ==
  /\ o + 9 <= Len(s)
  /\ SubSeq(s, o + 1, o + 9) = <<"l","a","b","e","l"," ","="," ","\"">>
  /\ o + 9 < e /\ e <= Len(s)
  /\ s[e] = QUOTE

C6_WholeInput ==
  (call.op = "extractLabel" /\ call.app \in {"E2Label", "DosFsLabel"}) =>
    outcome.ok /\ outcome.val = labelstr_arg

\* C6 amended: extractLabel of E2Label and DosFsLabel never fails and returns
\* the part of its input before the first line break, which is the whole
\* input exactly when the input has no line break.
C6_FirstLine ==
  (call.op = "extractLabel" /\ call.app \in {"E2Label", "DosFsLabel"}) =>
    /\ outcome.ok
    /\ outcome.val = FirstLine(labelstr_arg)
    /\ (outcome.val = labelstr_arg) <=> (\A i \in 1..Len(labelstr_arg) : labelstr_arg[i] # NL)

\* E2Label has returned less than an input that holds a line break
C6_Witness ==
  /\ call = [op |-> "extractLabel", app |-> "E2Label"]
  /\ \E i \in 1..Len(labelstr_arg) : labelstr_arg[i] = NL
  /\ outcome.ok /\ Len(outcome.val) < Len(labelstr_arg)

\* C7: on JFSTune and ReiserFSTune extractLabel raises FSError at the reads
\* check for every output, never NotImplementedError from _labelstrRegex and
\* never the no-match failure.
C7_ExtractUnsupported ==
  (call.op = "extractLabel" /\ call.app \in {"JFSTune", "ReiserFSTune"}) =>
    Raised(outcome, "FSError") /\ outcome.line = 120

\* C8: no call changes the class attributes or the caller's filesystem
\* object, and a call made again after any calls ends as it did the first
\* time.
C8_Frame ==
  [][/\ _name' = _name
     /\ fs' = fs
     /\ (first'.call = call' => first'.outcome = outcome')]_vars

\* the first call, a refused setLabelCommand, has been made again
C8_Witness ==
  /\ again
  /\ first.call = call
  /\ call.op = "setLabelCommand"
  /\ ~outcome.ok /\ first.outcome = outcome

\* C9: setLabelCommand with an empty label succeeds if and only if
\* unsetsLabel is true, which it is for every class but XFSAdmin, and with a
\* non-empty label it succeeds for every class.
C9_UnsetsLabel ==
  call.op = "setLabelCommand" =>
    /\ fs.label = <<>> => (outcome.ok <=> unsetsLabel(call.app))
    /\ fs.label # <<>> => outcome.ok
    /\ unsetsLabel(call.app) <=> call.app # "XFSAdmin"

\* JFSTune, which unsets labels, has built the command for an empty label
C9_Witness ==
  /\ call = [op |-> "setLabelCommand", app |-> "JFSTune"]
  /\ fs.label = <<>>
  /\ unsetsLabel("JFSTune") /\ outcome.ok

\* C10: for a label L without line break, the empty label and labels holding
\* double quotes included, XFSAdmin.extractLabel of label = "L" returns L.
C10_RoundTrip ==
  LET t == labelstr_arg
      L == SubSeq(t, 10, Len(t) - 1)
  IN  ( /\ call.op = "extractLabel" /\ call.app = "XFSAdmin"
        /\ Len(t) >= 10
        /\ SubSeq(t, 1, 9) = <<"l","a","b","e","l"," ","="," ","\"">>
        /\ t[Len(t)] = QUOTE
        /\ \A i \in 1..Len(L) : L[i] # NL )
      => outcome.ok /\ outcome.val = L

\* XFSAdmin has returned a label that itself holds a double quote
C10_Witness ==
  /\ call = [op |-> "extractLabel", app |-> "XFSAdmin"]
  /\ Len(labelstr_arg) >= 10
  /\ labelstr_arg[Len(labelstr_arg)] = QUOTE
  /\ outcome.ok
  /\ outcome.val = SubSeq(labelstr_arg, 10, Len(labelstr_arg) - 1)
  /\ \E i \in 1..Len(outcome.val) : outcome.val[i] = QUOTE

====
